---- MODULE Spec2Model ----
(***************************************************************************)
(* Model of sq::Shared_Queue (src/shared_queue.h): a bounded MPMC ring     *)
(* that lives in a caller-supplied memory region.  Every atomic access of  *)
(* enqueue(), dequeue() and create() is one step of the calling thread.    *)
(***************************************************************************)
EXTENDS Integers, Naturals, Sequences, FiniteSets, TLC

(* ------------------------------ bounds --------------------------------- *)

\* Threads that call create(), enqueue() and dequeue().
NThreads == 2
\* Calls of enqueue()/dequeue() begun in one behaviour.
MaxOps == 4
\* Calls of enqueue()/dequeue() begun in one behaviour that starts with create().
MaxBootOps == 1
\* Values the single producer of the producer/consumer workload sends.
NItems == 3
\* Largest ring capacity the specifications start from.
MaxCap == 2
\* Width in bits of size_t / intptr_t, scaled down.
SizeBits == 12
\* Steps of a call that are followed when it runs alone.
MaxAlone == 16
\* Calls of enqueue() begun before the producers stop, where the consumer goes on.
MaxSends == 2
\* Positions left before the head and tail counters wrap, where a behaviour starts
\* close to the wrap, and the calls begun in such a behaviour.
WrapBack == 2
MaxWrapOps == 6

Threads == 1..NThreads
SizeMod == 2 ^ SizeBits

\* T data of a slot that no enqueue has written yet (a zero-filled region).
NoValue == 0

(* --------------------------- machine words ----------------------------- *)

\* size_t arithmetic: pos + 1, pos + capacity.
Add(a, b) == (a + b) % SizeMod

\* static_cast<intptr_t>(x) of a size_t.
ToSigned(x) == IF x >= SizeMod \div 2 THEN x - SizeMod ELSE x

\* static_cast<intptr_t>(a) - static_cast<intptr_t>(b), in the width of intptr_t.
SignedDiff(a, b) == ToSigned((ToSigned(a) - ToSigned(b)) % SizeMod)

(* ------------------------------- state --------------------------------- *)

VARIABLES
  mem,      \* the shared region: control block fields and the slot array
  th,       \* per thread: position in the running call and its locals
  ops,      \* number of calls begun
  enqLog,   \* history: one record per enqueue call, indexed by its value
  deqLog,   \* history: the successful dequeues, in order of return
  tookFull, \* history: some enqueue entered the diff < 0 branch
  handle,   \* per thread: its Shared_Queue object and the create() call that bound it
  readyCap  \* history: capacity when initialization_flag first became 2 (0: not yet)

vars == <<mem, th, ops, enqLog, deqLog, tookFull, handle, readyCap>>

\* Buffer_Slot(): sequence(0), important(false); data as the region holds it.
Buffer_Slot == [sequence |-> 0, data |-> NoValue, important |-> FALSE]

\* Locals of a thread that runs no call.
IdleThread ==
  [pc |-> "idle", pos |-> 0, slot |-> 0, value |-> NoValue, important |-> FALSE,
   queue_capacity |-> 0, i |-> 0]

(* ------------------------------- layout -------------------------------- *)

\* sizeof(Shared_Control_Block): atomic<int>, padding, two atomic<size_t>, a size_t.
ControlBlockSize == 32
\* alignof(std::max_align_t)
MaxAlign == 16
\* sizeof(Buffer_Slot), alignas(64), for a payload that fits one cache line.
SlotSize == 64

\* (sizeof(Shared_Control_Block) + alignment - 1) & ~(alignment - 1)
AlignedControlSize == ((ControlBlockSize + MaxAlign - 1) \div MaxAlign) * MaxAlign

\* buffer_space / sizeof(Buffer_Slot) for a region size that holds the control block.
QueueCapacity(size) == (size - AlignedControlSize) \div SlotSize

\* Size checks that stop after the control block fits.
SizeAcceptedControlOnly(size) == size >= AlignedControlSize

\* The size checks of create(): the control block fits and the capacity is at least 1.
SizeAccepted(size) == size >= AlignedControlSize /\ QueueCapacity(size) # 0

\* The smallest region for cap slots.
SizeFor(cap) == AlignedControlSize + cap * SlotSize

\* A Shared_Queue object no create() call has bound.
UnboundHandle ==
  [created |-> FALSE, size |-> 0, late |-> FALSE, items |-> 0, won |-> FALSE]

\* A Shared_Queue object bound by a completed create() on a region of cap slots.
BoundHandle(cap) == [UnboundHandle EXCEPT !.created = TRUE, !.size = SizeFor(cap)]

\* The region after a completed create() that derived capacity cap.
CreatedRegion(cap) ==
  [initialization_flag |-> 2, head |-> 0, tail |-> 0, capacity |-> cap,
   buffer |-> [i \in 0..(MaxCap - 1) |->
                 IF i < cap THEN [Buffer_Slot EXCEPT !.sequence = i]
                            ELSE Buffer_Slot]]

\* index % capacity
wrap(m, index) == index % m.capacity

\* Buffer_Slot& slot = buffer[wrap(pos)]
SlotAt(m, pos) == m.buffer[wrap(m, pos)]


\* tail - head, as size_approx() computes it.
size_approx(m) == (m.tail - m.head) % SizeMod

\* head == tail
is_empty(m) == m.head = m.tail

(* ------------------------------ enqueue -------------------------------- *)

\* A successful tail/head compare_exchange: the counter moves from pos to pos + 1.
Advance(pos) == Add(pos, 1)

\* Where the enqueue loop goes after loading slot.sequence: diff == 0, diff < 0, else.
EnqueueBranch(seq, pos) ==
  LET diff == SignedDiff(seq, pos)
  IN  IF diff = 0 THEN "enq_cas"
      ELSE IF diff < 0 THEN "enq_full"
      ELSE "enq_reload"

\* What the full-ring branch does with the slot's important flag.
FullBranch(important) == IF important THEN "ret_false" ELSE "ovw_cas"

\* A producer that publishes the position itself.
EnqueueSequenceSame(pos) == pos

\* The sequence a producer publishes after writing at pos.
EnqueueSequence(pos) == Add(pos, 1)

\* One step of enqueue(value, important) by a thread with locals l on region m.
EnqueueStep(m, l) ==
  LET i == l.slot
      slot == m.buffer[i]
  IN
  CASE l.pc = "enq_load_tail" ->
         [m |-> m, l |-> [l EXCEPT !.pos = m.tail, !.pc = "enq_load_seq"]]
    [] l.pc = "enq_load_seq" ->
         [m |-> m,
          l |-> [l EXCEPT !.slot = wrap(m, l.pos),
                          !.pc = EnqueueBranch(SlotAt(m, l.pos).sequence, l.pos)]]
    [] l.pc = "enq_cas" ->
         IF m.tail = l.pos
         THEN [m |-> [m EXCEPT !.tail = Advance(l.pos)],
               l |-> [l EXCEPT !.pc = "enq_data"]]
         ELSE [m |-> m, l |-> [l EXCEPT !.pos = m.tail, !.pc = "enq_load_seq"]]
    [] l.pc = "enq_data" ->
         [m |-> [m EXCEPT !.buffer[i].data = l.value],
          l |-> [l EXCEPT !.pc = "enq_imp"]]
    [] l.pc = "enq_imp" ->
         [m |-> [m EXCEPT !.buffer[i].important = l.important],
          l |-> [l EXCEPT !.pc = "enq_seq"]]
    [] l.pc = "enq_seq" ->
         [m |-> [m EXCEPT !.buffer[i].sequence = EnqueueSequence(l.pos)],
          l |-> [l EXCEPT !.pc = "ret_true"]]
    [] l.pc = "enq_full" ->
         [m |-> m, l |-> [l EXCEPT !.pc = FullBranch(slot.important)]]
    [] l.pc = "ovw_cas" ->
         IF m.tail = l.pos
         THEN [m |-> [m EXCEPT !.tail = Advance(l.pos)],
               l |-> [l EXCEPT !.pc = "ovw_data"]]
         ELSE [m |-> m, l |-> [l EXCEPT !.pos = m.tail, !.pc = "enq_load_seq"]]
    [] l.pc = "ovw_data" ->
         [m |-> [m EXCEPT !.buffer[i].data = l.value],
          l |-> [l EXCEPT !.pc = "ovw_imp"]]
    [] l.pc = "ovw_imp" ->
         [m |-> [m EXCEPT !.buffer[i].important = l.important],
          l |-> [l EXCEPT !.pc = "ovw_seq"]]
    [] l.pc = "ovw_seq" ->
         [m |-> [m EXCEPT !.buffer[i].sequence = EnqueueSequence(l.pos)],
          l |-> [l EXCEPT !.pc = "ret_true"]]
    [] l.pc = "enq_reload" ->
         [m |-> m, l |-> [l EXCEPT !.pos = m.tail, !.pc = "enq_load_seq"]]

EnqueuePcs == {"enq_load_tail", "enq_load_seq", "enq_cas", "enq_data", "enq_imp",
               "enq_seq", "enq_full", "ovw_cas", "ovw_data", "ovw_imp", "ovw_seq",
               "enq_reload"}

(* ------------------------------ dequeue -------------------------------- *)

\* Where the dequeue loop goes after loading slot.sequence: diff == 0, diff < 0, else.
DequeueBranch(seq, pos) ==
  LET diff == SignedDiff(seq, Add(pos, 1))
  IN  IF diff = 0 THEN "deq_cas"
      ELSE IF diff < 0 THEN "ret_false"
      ELSE "deq_reload"

\* The sequence a consumer publishes after reading at pos.
DequeueSequence(m, pos) == Add(pos, m.capacity)

\* One step of dequeue(&value, &important) by a thread with locals l on region m.
DequeueStep(m, l) ==
  LET i == l.slot
      slot == m.buffer[i]
  IN
  CASE l.pc = "deq_load_head" ->
         [m |-> m, l |-> [l EXCEPT !.pos = m.head, !.pc = "deq_load_seq"]]
    [] l.pc = "deq_load_seq" ->
         [m |-> m,
          l |-> [l EXCEPT !.slot = wrap(m, l.pos),
                          !.pc = DequeueBranch(SlotAt(m, l.pos).sequence, l.pos)]]
    [] l.pc = "deq_cas" ->
         IF m.head = l.pos
         THEN [m |-> [m EXCEPT !.head = Advance(l.pos)],
               l |-> [l EXCEPT !.pc = "deq_data"]]
         ELSE [m |-> m, l |-> [l EXCEPT !.pos = m.head, !.pc = "deq_load_seq"]]
    [] l.pc = "deq_data" ->
         [m |-> m, l |-> [l EXCEPT !.value = slot.data, !.pc = "deq_imp"]]
    [] l.pc = "deq_imp" ->
         [m |-> m, l |-> [l EXCEPT !.important = slot.important, !.pc = "deq_clear"]]
    [] l.pc = "deq_clear" ->
         [m |-> [m EXCEPT !.buffer[i].important = FALSE],
          l |-> [l EXCEPT !.pc = "deq_seq"]]
    [] l.pc = "deq_seq" ->
         [m |-> [m EXCEPT !.buffer[i].sequence = DequeueSequence(m, l.pos)],
          l |-> [l EXCEPT !.pc = "ret_true"]]
    [] l.pc = "deq_reload" ->
         [m |-> m, l |-> [l EXCEPT !.pos = m.head, !.pc = "deq_load_seq"]]

DequeuePcs == {"deq_load_head", "deq_load_seq", "deq_cas", "deq_data", "deq_imp",
               "deq_clear", "deq_seq", "deq_reload"}

ReturnPcs == {"ret_true", "ret_false"}

(* ------------------- threads calling enqueue/dequeue ------------------- *)

\* A queue handle bound to a region that create() initialized with capacity 1..MaxCap;
\* no call has begun.
Init ==
  /\ \E cap \in 1..MaxCap : mem = CreatedRegion(cap)
  /\ th = [t \in Threads |-> IdleThread]
  /\ ops = 0
  /\ enqLog = << >>
  /\ deqLog = << >>
  /\ tookFull = FALSE
  /\ handle = [t \in Threads |-> BoundHandle(mem.capacity)]
  /\ readyCap = mem.capacity

\* Thread t calls enqueue(value, important); the value names the call.
CallEnqueueUpTo(t, max) ==
  /\ th[t].pc = "idle"
  /\ handle[t].created
  /\ ops < max
  /\ \E important \in BOOLEAN :
       /\ th' = [th EXCEPT ![t] = [IdleThread EXCEPT !.pc = "enq_load_tail",
                                                      !.value = Len(enqLog) + 1,
                                                      !.important = important]]
       /\ enqLog' = Append(enqLog, [thread |-> t, important |-> important,
                                    pos |-> -1, ret |-> "pending"])
  /\ ops' = ops + 1
  /\ UNCHANGED <<mem, deqLog, tookFull, handle, readyCap>>

\* Thread t calls dequeue(&value, &important).
CallDequeueUpTo(t, max) ==
  /\ th[t].pc = "idle"
  /\ handle[t].created
  /\ ops < max
  /\ th' = [th EXCEPT ![t] = [IdleThread EXCEPT !.pc = "deq_load_head"]]
  /\ ops' = ops + 1
  /\ UNCHANGED <<mem, enqLog, deqLog, tookFull, handle, readyCap>>

CallEnqueue(t) == CallEnqueueUpTo(t, MaxOps)
CallDequeue(t) == CallDequeueUpTo(t, MaxOps)

\* The locals of a thread after step result r: a returned call leaves it idle.
AfterStep(r) == IF r.l.pc \in ReturnPcs THEN IdleThread ELSE r.l

\* Thread t takes the next step of its enqueue call.
EnqueueRun(t) ==
  /\ th[t].pc \in EnqueuePcs
  /\ LET l == th[t]
         r == EnqueueStep(mem, l)
         v == l.value
     IN  /\ mem' = r.m
         /\ th' = [th EXCEPT ![t] = AfterStep(r)]
         /\ enqLog' =
              IF r.l.pc \in {"enq_data", "ovw_data"}
              THEN [enqLog EXCEPT ![v].pos = l.pos]
              ELSE IF r.l.pc = "ret_true" THEN [enqLog EXCEPT ![v].ret = "true"]
              ELSE IF r.l.pc = "ret_false" THEN [enqLog EXCEPT ![v].ret = "false"]
              ELSE enqLog
         /\ tookFull' = (tookFull \/ r.l.pc = "enq_full")
  /\ UNCHANGED <<ops, deqLog, handle, readyCap>>

\* Thread t takes the next step of its dequeue call.
DequeueRun(t) ==
  /\ th[t].pc \in DequeuePcs
  /\ LET l == th[t]
         r == DequeueStep(mem, l)
     IN  /\ mem' = r.m
         /\ th' = [th EXCEPT ![t] = AfterStep(r)]
         /\ deqLog' =
              IF r.l.pc = "ret_true"
              THEN Append(deqLog, [thread |-> t, pos |-> l.pos, value |-> l.value,
                                   important |-> l.important])
              ELSE deqLog
  /\ UNCHANGED <<ops, enqLog, tookFull, handle, readyCap>>

\* compare_exchange_weak fails spuriously: pos keeps its value and the loop repeats.
CasSpurious(t) ==
  /\ th[t].pc \in {"enq_cas", "ovw_cas", "deq_cas"}
  /\ th' = [th EXCEPT ![t].pc = IF th[t].pc = "deq_cas" THEN "deq_load_seq"
                                ELSE "enq_load_seq"]
  /\ UNCHANGED <<mem, ops, enqLog, deqLog, tookFull, handle, readyCap>>

Next ==
  \E t \in Threads :
    \/ CallEnqueue(t)
    \/ CallDequeue(t)
    \/ EnqueueRun(t)
    \/ DequeueRun(t)
    \/ CasSpurious(t)

Spec == Init /\ [][Next]_vars

\* No call is in flight.
Quiescent == \A t \in Threads : th[t].pc = "idle"

(* ------------------------------- create -------------------------------- *)

\* The region as the caller supplies it the first time: zero bytes.
ZeroRegion ==
  [initialization_flag |-> 0, head |-> 0, tail |-> 0, capacity |-> 0,
   buffer |-> [i \in 0..(MaxCap - 1) |-> Buffer_Slot]]

\* The region sizes callers pass: too small for the control block, too small for one
\* slot, room for one slot and room for MaxCap slots.
Sizes == {AlignedControlSize - 1, SizeFor(1) - 1, SizeFor(1), SizeFor(MaxCap)}

\* A compare-and-swap that also claims a region that is already initialized.
InitCasWinsReady(flag) == flag # 1

\* initialization_flag.compare_exchange_strong(expected = 0, 1) succeeds.
InitCasWins(flag) == flag = 0

\* The value Shared_Control_Block's constructor gives initialization_flag.
ConstructedFlag == 0

\* A waiting loop that only waits while initialization_flag is still 0.
WaitBranchClaimed(flag) == IF flag = 0 THEN "crt_wait" ELSE "crt_bind"

\* The waiting loop of a caller that lost the compare-and-swap.
WaitBranch(flag) == IF flag # 2 THEN "crt_wait" ELSE "crt_bind"

\* One step of create(shared_memory_address, size) by a thread with locals l.
CreateStep(m, l, size) ==
  CASE l.pc = "crt_check" ->
         IF SizeAccepted(size)
         THEN [m |-> m, l |-> [l EXCEPT !.queue_capacity = QueueCapacity(size),
                                        !.pc = "crt_cas"]]
         ELSE [m |-> m, l |-> [l EXCEPT !.pc = "ret_false"]]
    [] l.pc = "crt_cas" ->
         IF InitCasWins(m.initialization_flag)
         THEN [m |-> [m EXCEPT !.initialization_flag = 1],
               l |-> [l EXCEPT !.pc = "crt_ctor_flag"]]
         ELSE [m |-> m, l |-> [l EXCEPT !.pc = "crt_wait"]]
    [] l.pc = "crt_ctor_flag" ->
         [m |-> [m EXCEPT !.initialization_flag = ConstructedFlag],
          l |-> [l EXCEPT !.pc = "crt_ctor_head"]]
    [] l.pc = "crt_ctor_head" ->
         [m |-> [m EXCEPT !.head = 0], l |-> [l EXCEPT !.pc = "crt_ctor_tail"]]
    [] l.pc = "crt_ctor_tail" ->
         [m |-> [m EXCEPT !.tail = 0], l |-> [l EXCEPT !.pc = "crt_ctor_cap"]]
    [] l.pc = "crt_ctor_cap" ->
         [m |-> [m EXCEPT !.capacity = l.queue_capacity],
          l |-> [l EXCEPT !.i = 0, !.pc = "crt_slot_new"]]
    [] l.pc = "crt_slot_new" ->
         [m |-> [m EXCEPT !.buffer[l.i].sequence = 0, !.buffer[l.i].important = FALSE],
          l |-> [l EXCEPT !.pc = "crt_slot_seq"]]
    [] l.pc = "crt_slot_seq" ->
         [m |-> [m EXCEPT !.buffer[l.i].sequence = l.i,
                          !.buffer[l.i].important = FALSE],
          l |-> [l EXCEPT !.i = l.i + 1,
                          !.pc = IF l.i + 1 < l.queue_capacity THEN "crt_slot_new"
                                 ELSE "crt_ready"]]
    [] l.pc = "crt_ready" ->
         [m |-> [m EXCEPT !.initialization_flag = 2],
          l |-> [l EXCEPT !.pc = "ret_true"]]
    [] l.pc = "crt_wait" ->
         [m |-> m, l |-> [l EXCEPT !.pc = WaitBranch(m.initialization_flag)]]
    [] l.pc = "crt_bind" ->
         [m |-> m, l |-> [l EXCEPT !.queue_capacity = m.capacity, !.pc = "ret_true"]]

\* The steps of the initializing branch of create().
InitPcs == {"crt_ctor_flag", "crt_ctor_head", "crt_ctor_tail", "crt_ctor_cap",
            "crt_slot_new", "crt_slot_seq", "crt_ready"}

CreatePcs == {"crt_check", "crt_cas", "crt_wait", "crt_bind"} \cup InitPcs

\* Some caller is in the initializing branch.
Initializing == \E t \in Threads : th[t].pc \in InitPcs

\* A fresh zero-filled region and unbound Shared_Queue objects.
BootInit ==
  /\ mem = ZeroRegion
  /\ th = [t \in Threads |-> IdleThread]
  /\ ops = 0
  /\ enqLog = << >>
  /\ deqLog = << >>
  /\ tookFull = FALSE
  /\ handle = [t \in Threads |-> UnboundHandle]
  /\ readyCap = 0

\* Thread t calls create(region, size) on its unbound Shared_Queue object.
CallCreate(t) ==
  /\ th[t].pc = "idle"
  /\ handle[t] = UnboundHandle
  /\ \E size \in Sizes :
       handle' = [handle EXCEPT ![t].size = size,
                                ![t].late = (mem.initialization_flag = 2 /\ ~Initializing),
                                ![t].items = size_approx(mem)]
  /\ th' = [th EXCEPT ![t] = [IdleThread EXCEPT !.pc = "crt_check"]]
  /\ UNCHANGED <<mem, ops, enqLog, deqLog, tookFull, readyCap>>

\* Thread t takes the next step of its create call.
CreateRun(t) ==
  /\ th[t].pc \in CreatePcs
  /\ LET l == th[t]
         r == CreateStep(mem, l, handle[t].size)
     IN  /\ mem' = r.m
         /\ th' = [th EXCEPT ![t] = AfterStep(r)]
         /\ handle' = [handle EXCEPT
                         ![t].created = (r.l.pc = "ret_true"),
                         ![t].won = (handle[t].won \/ r.l.pc = "crt_ctor_flag")]
         /\ readyCap' = IF readyCap = 0 /\ r.m.initialization_flag = 2
                        THEN r.m.capacity ELSE readyCap
  /\ UNCHANGED <<ops, enqLog, deqLog, tookFull>>

\* Calls through a handle that create() has bound.
BootEnqueue(t) == CallEnqueueUpTo(t, MaxBootOps)
BootDequeue(t) == CallDequeueUpTo(t, MaxBootOps)

BootNext ==
  \E t \in Threads :
    \/ CallCreate(t)
    \/ CreateRun(t)
    \/ BootEnqueue(t)
    \/ BootDequeue(t)
    \/ EnqueueRun(t)
    \/ DequeueRun(t)
    \/ CasSpurious(t)

SpecBoot == BootInit /\ [][BootNext]_vars

(* ------------------ one producer and one consumer ---------------------- *)

Producer == 1
Consumer == 2

\* The value the producer sends next: it moves on when enqueue returned true.
NextItem == Cardinality({v \in 1..Len(enqLog) : enqLog[v].ret = "true"}) + 1

\* The producer calls enqueue(NextItem, false): a new value, or the retry of the one
\* whose enqueue returned false.
SpscSend ==
  /\ th[Producer].pc = "idle"
  /\ NextItem <= NItems
  /\ th' = [th EXCEPT ![Producer] = [IdleThread EXCEPT !.pc = "enq_load_tail",
                                                         !.value = NextItem]]
  /\ enqLog' = IF Len(enqLog) >= NextItem
               THEN [enqLog EXCEPT ![NextItem].ret = "pending"]
               ELSE Append(enqLog, [thread |-> Producer, important |-> FALSE,
                                    pos |-> -1, ret |-> "pending"])
  /\ ops' = NextItem
  /\ UNCHANGED <<mem, deqLog, tookFull, handle, readyCap>>

\* The consumer calls dequeue() again, for as long as values are missing.
SpscReceive ==
  /\ th[Consumer].pc = "idle"
  /\ Len(deqLog) < NItems
  /\ th' = [th EXCEPT ![Consumer] = [IdleThread EXCEPT !.pc = "deq_load_head"]]
  /\ UNCHANGED <<mem, ops, enqLog, deqLog, tookFull, handle, readyCap>>

SpscNext ==
  \/ SpscSend
  \/ SpscReceive
  \/ EnqueueRun(Producer)
  \/ DequeueRun(Consumer)
  \/ \E t \in {Producer, Consumer} : CasSpurious(t)

\* The workload runs on a ring of at least two slots.
SpscInit ==
  /\ \E cap \in 2..MaxCap : mem = CreatedRegion(cap)
  /\ th = [t \in Threads |-> IdleThread]
  /\ ops = 0
  /\ enqLog = << >>
  /\ deqLog = << >>
  /\ tookFull = FALSE
  /\ handle = [t \in Threads |-> BoundHandle(mem.capacity)]
  /\ readyCap = mem.capacity

SpecSpsc == SpscInit /\ [][SpscNext]_vars

(* ------------------------- a call running alone ------------------------ *)

\* Locals of a thread entering enqueue(value, important) / dequeue().
EnqueueCall(value, important) ==
  [IdleThread EXCEPT !.pc = "enq_load_tail", !.value = value, !.important = important]
DequeueCall == [IdleThread EXCEPT !.pc = "deq_load_head"]

\* The states an enqueue call passes through when no other thread takes a step:
\* from <<m, l>>, up to n steps or until it returns.
RECURSIVE EnqueueAlone(_, _, _)
EnqueueAlone(m, l, n) ==
  IF l.pc \in ReturnPcs \/ n = 0 THEN << [m |-> m, l |-> l] >>
  ELSE LET r == EnqueueStep(m, l)
       IN  << [m |-> m, l |-> l] >> \o EnqueueAlone(r.m, r.l, n - 1)

\* The same for a dequeue call.
RECURSIVE DequeueAlone(_, _, _)
DequeueAlone(m, l, n) ==
  IF l.pc \in ReturnPcs \/ n = 0 THEN << [m |-> m, l |-> l] >>
  ELSE LET r == DequeueStep(m, l)
       IN  << [m |-> m, l |-> l] >> \o DequeueAlone(r.m, r.l, n - 1)

\* The last state of a run.
Last(run) == run[Len(run)]

\* The run has not returned and is back in a state it was in before: running alone
\* it repeats that cycle forever.
Spins(run) ==
  /\ Last(run).l.pc \notin ReturnPcs
  /\ \E k \in 1..(Len(run) - 1) : run[k] = Last(run)

\* The run returned the given result.
Returned(run, pc) == Last(run).l.pc = pc

(* ------------------------------- claims -------------------------------- *)

\* The values returned by successful dequeues so far.
Dequeued == {deqLog[k].value : k \in 1..Len(deqLog)}

\* Value v has left its slot through a dequeue: a dequeue returned it, or a consumer
\* that claimed the position has copied the payload and is about to return.
Taken(v) ==
  \/ v \in Dequeued
  \/ \E t \in Threads : th[t].pc \in {"deq_imp", "deq_clear", "deq_seq"} /\ th[t].value = v

\* C1: an item whose enqueue(v, important = true) returned true keeps its slot's
\* payload and important flag until a dequeue takes it; no enqueue replaces them.
C1_ImportantNeverOverwritten ==
  \A v \in 1..Len(enqLog) :
    (enqLog[v].ret = "true" /\ enqLog[v].important /\ ~Taken(v)) =>
      LET slot == SlotAt(mem, enqLog[v].pos)
      IN  slot.data = v /\ slot.important

\* C2: in every reachable state 0 <= tail - head <= capacity, and size_approx() on a
\* quiescent queue is at most capacity.
C2_CountBound ==
  /\ SignedDiff(mem.tail, mem.head) \in 0..mem.capacity
  /\ Quiescent => size_approx(mem) <= mem.capacity

\* C4: every (value, important) pair a successful dequeue returned is the pair of an
\* enqueue that returned true, and no enqueue is returned by two dequeues.
C4_NoGhostItems ==
  /\ \A k \in 1..Len(deqLog) :
       /\ deqLog[k].value \in 1..Len(enqLog)
       /\ enqLog[deqLog[k].value].pos # -1
       /\ enqLog[deqLog[k].value].important = deqLog[k].important
  /\ \A j, k \in 1..Len(deqLog) : deqLog[j].value = deqLog[k].value => j = k

\* C3: from every state with no call in flight, a dequeue call and an enqueue call
\* that run alone each return after finitely many of their own steps.
C3_NonBlocking ==
  Quiescent =>
    /\ ~Spins(DequeueAlone(mem, DequeueCall, MaxAlone))
    /\ \A important \in BOOLEAN :
         ~Spins(EnqueueAlone(mem, EnqueueCall(Len(enqLog) + 1, important), MaxAlone))

\* The first capacity calls were enqueues with important = true on the fresh queue,
\* all have returned true, and nothing else was called.
FullOfImportant ==
  /\ Quiescent
  /\ ops = mem.capacity
  /\ Len(enqLog) = mem.capacity
  /\ deqLog = << >>
  /\ \A v \in 1..Len(enqLog) : enqLog[v].important /\ enqLog[v].ret = "true"

\* C7: after capacity successful important enqueues on an empty queue and no dequeue,
\* a further enqueue returns false and changes nothing in the region; after one
\* successful dequeue the same enqueue returns true.
C7_ImportanceGuard ==
  FullOfImportant =>
    \A important \in BOOLEAN :
      LET call == EnqueueCall(Len(enqLog) + 1, important)
          e1 == EnqueueAlone(mem, call, MaxAlone)
          d == DequeueAlone(mem, DequeueCall, MaxAlone)
          e2 == EnqueueAlone(Last(d).m, call, MaxAlone)
      IN  /\ Returned(e1, "ret_false")
          /\ Last(e1).m = mem
          /\ Returned(d, "ret_true")
          /\ Returned(e2, "ret_true")

\* The enqueue calls whose tail compare-and-swap succeeded, and their positions.
Placed == {v \in 1..Len(enqLog) : enqLog[v].pos # -1}

\* Every position below tail was claimed by exactly one enqueue, and one producer's
\* calls claim increasing positions.
ConsecutivePositions ==
  /\ \A p \in 0..(mem.tail - 1) : \E v \in Placed : enqLog[v].pos = p
  /\ \A v, w \in Placed : enqLog[v].pos = enqLog[w].pos => v = w
  /\ \A v, w \in Placed :
       (enqLog[v].thread = enqLog[w].thread /\ v < w) => enqLog[v].pos < enqLog[w].pos

\* One producer's values are dequeued at head positions in the order of its calls.
ProducerOrder ==
  \A j, k \in 1..Len(deqLog) :
    LET v == deqLog[j].value
        w == deqLog[k].value
    IN  (/\ v \in 1..Len(enqLog) /\ w \in 1..Len(enqLog)
         /\ enqLog[v].thread = enqLog[w].thread
         /\ v < w)
        => deqLog[j].pos < deqLog[k].pos

\* Dequeues return the placed values in position order: a dequeue that claimed a
\* later head position returns a value enqueued at a later tail position.
PositionOrder ==
  \A j, k \in 1..Len(deqLog) :
    (/\ deqLog[j].value \in Placed /\ deqLog[k].value \in Placed
     /\ deqLog[j].pos < deqLog[k].pos)
    => enqLog[deqLog[j].value].pos < enqLog[deqLog[k].value].pos

\* C5: while no enqueue has taken the diff < 0 branch, one producer's values are
\* dequeued in the order it enqueued them, successful enqueues occupy consecutive
\* positions and dequeues return them in position order.
C5_ProducerFifo ==
  ~tookFull => (ProducerOrder /\ ConsecutivePositions /\ PositionOrder)

\* The producer has sent all its values and the consumer is between calls.
SpscSent == NextItem > NItems /\ Quiescent

\* C6: with one producer sending 1..NItems (NItems > capacity) and one consumer, the
\* successful dequeues return 1, 2, ... in order, and while values are missing after
\* the producer finished, the consumer's next dequeue returns one.
C6_SpscInOrder ==
  /\ \A k \in 1..Len(deqLog) : deqLog[k].value = k
  /\ (SpscSent /\ Len(deqLog) < NItems) =>
       Returned(DequeueAlone(mem, DequeueCall, MaxAlone), "ret_true")

\* The callers whose compare-and-swap 0 -> 1 succeeded and who ran the initialization.
Winners == {t \in Threads : handle[t].won}

\* Every create() call so far passed the same region size.
SameSize ==
  \A t, u \in Threads :
    (handle[t].size # 0 /\ handle[u].size # 0) => handle[t].size = handle[u].size

\* Some caller is past the compare-and-swap.
PastCas ==
  \E t \in Threads :
    handle[t].created \/ th[t].pc \in (CreatePcs \ {"crt_check", "crt_cas"})

\* C8: when the callers of create() on a fresh region pass the same size, exactly one
\* of them wins the compare-and-swap and initializes; the others only wait.
C8_BootstrapOnce ==
  SameSize => /\ Cardinality(Winners) <= 1
              /\ PastCas => Cardinality(Winners) = 1

\* C9: every step of a create() call that started when initialization_flag was 2 and
\* nobody was initializing leaves the region unchanged; the call does not wait, and
\* it returns true whenever its size passes the size checks.
C9_AttachReady ==
  [][\A t \in Threads :
       (th[t].pc \in CreatePcs /\ handle[t].late /\ th'[t] # th[t]) =>
         /\ mem' = mem
         /\ th[t].pc = "crt_wait" => th'[t].pc = "crt_bind"
         /\ th'[t].pc = "idle" => (handle'[t].created = SizeAccepted(handle[t].size))
    ]_vars

\* A caller attached to a ready region that held items, with a size that derives
\* another capacity than the region's, and the items are still there.
C9_Witness ==
  \E t \in Threads :
    /\ handle[t].late /\ handle[t].created
    /\ QueueCapacity(handle[t].size) # mem.capacity
    /\ handle[t].items > 0
    /\ size_approx(mem) = handle[t].items
    /\ Quiescent
    /\ \E v \in 1..Len(enqLog) : enqLog[v].ret = "true"

\* C10: once initialization_flag has been 2, capacity keeps the value it had then.
C10_CapacityFixed == readyCap # 0 => mem.capacity = readyCap

(* ---------------- concurrent attachers on a fresh region --------------- *)

\* Thread t calls create() on the region the other callers use: the same region
\* size, large enough for the control block and at least one slot.
CallAttach(t) ==
  /\ CallCreate(t)
  /\ SizeAccepted(handle'[t].size)
  /\ \A u \in Threads : handle[u].size # 0 => handle'[t].size = handle[u].size

AttachNext == \E t \in Threads : CallAttach(t) \/ CreateRun(t)

\* Every thread makes its call and keeps being scheduled while its call runs.
AttachFair == \A t \in Threads : WF_vars(CallAttach(t)) /\ WF_vars(CreateRun(t))

SpecAttach == BootInit /\ [][AttachNext]_vars /\ AttachFair

\* Every create() call has returned true.
AllAttached == \A t \in Threads : th[t].pc = "idle" /\ handle[t].created

\* C11: when every thread calls create() on a fresh region of sufficient size and
\* keeps being scheduled, every call eventually returns true with created = true, and
\* the capacity a caller holds when it returns is the control block's capacity, the
\* one the region size derives, so it is the same for every caller.
C11_AllAttach ==
  /\ <>[]AllAttached
  /\ [][\A t \in Threads :
          (th[t].pc \in CreatePcs /\ th'[t].pc = "idle") =>
            LET r == CreateStep(mem, th[t], handle[t].size)
            IN  /\ handle'[t].created
                /\ r.l.queue_capacity = mem'.capacity
                /\ mem'.capacity = QueueCapacity(handle[t].size)
       ]_vars

\* Every caller has returned true, one of them after waiting for another's
\* initialization.
C11_Witness == AllAttached /\ \E t \in Threads : ~handle[t].won

(* ------------- producers that stop, a consumer that goes on ------------ *)

\* A producer calls enqueue(); the producers stop after MaxSends calls.
Send(t) == CallEnqueueUpTo(t, MaxSends)

\* The consumer calls dequeue() again whenever its last call has returned.
KeepDequeue ==
  /\ th[Consumer].pc = "idle"
  /\ th' = [th EXCEPT ![Consumer] = DequeueCall]
  /\ UNCHANGED <<mem, ops, enqLog, deqLog, tookFull, handle, readyCap>>

\* compare_exchange_weak fails spuriously only finitely often in a row, so the
\* spurious failures are left out of the behaviours that run forever.
DeliverNext ==
  \/ \E t \in Threads : Send(t) \/ EnqueueRun(t) \/ DequeueRun(t)
  \/ KeepDequeue

\* Every running call keeps being scheduled and the consumer keeps calling.
DeliverFair ==
  /\ \A t \in Threads : WF_vars(EnqueueRun(t)) /\ WF_vars(DequeueRun(t))
  /\ WF_vars(KeepDequeue)

SpecDeliver == Init /\ [][DeliverNext]_vars /\ DeliverFair

\* The enqueue of v with important = true has returned true.
AcceptedImportant(v) ==
  v \in 1..Len(enqLog) /\ enqLog[v].important /\ enqLog[v].ret = "true"

\* Some successful dequeue returned v together with important = true.
Delivered(v) ==
  \E k \in 1..Len(deqLog) : deqLog[k].value = v /\ deqLog[k].important

\* C12: when the producers stop and a fairly scheduled consumer keeps calling
\* dequeue(), every value whose enqueue with important = true returned true is
\* eventually returned by a successful dequeue together with important = true.
C12_ImportantDelivered ==
  \A v \in 1..MaxSends : AcceptedImportant(v) ~> Delivered(v)

\* The create() call of thread t was given less than the aligned control block plus
\* one slot.
TooSmall(t) == handle[t].size # 0 /\ handle[t].size < AlignedControlSize + SlotSize

\* C13: a create() call with a size smaller than the aligned control block plus one
\* slot returns false at its first step, writes nothing into the region and leaves
\* created = false.
C13_InsufficientRegion ==
  [][\A t \in Threads :
       (th[t].pc \in CreatePcs /\ TooSmall(t) /\ th'[t] # th[t]) =>
         /\ mem' = mem
         /\ th'[t].pc = "idle"
         /\ ~handle'[t].created
    ]_vars

\* A call with too small a size has returned while another caller was initializing
\* the region.
C13_Witness ==
  \E t \in Threads :
    /\ TooSmall(t) /\ th[t].pc = "idle" /\ ~handle[t].created
    /\ mem.initialization_flag = 1
    /\ Initializing

\* The values an enqueue call may carry.
Values == 1..(MaxOps + 1)

\* enqueue(v, imp) and then dequeue(), each running alone from region m: both return
\* true, the dequeue returns exactly (v, imp), and afterwards the queue is empty,
\* size_approx() is 0 and the slot's important flag is false.
RoundTrip(m, v, imp) ==
  LET e == EnqueueAlone(m, EnqueueCall(v, imp), MaxAlone)
      d == DequeueAlone(Last(e).m, DequeueCall, MaxAlone)
      after == Last(d).m
  IN  /\ Returned(e, "ret_true")
      /\ Returned(d, "ret_true")
      /\ Last(d).l.value = v
      /\ Last(d).l.important = imp
      /\ is_empty(after)
      /\ size_approx(after) = 0
      /\ ~after.buffer[Last(d).l.slot].important

OwnerPcs == {"enq_data", "enq_imp", "enq_seq", "ovw_data", "ovw_imp", "ovw_seq",
             "deq_data", "deq_imp", "deq_clear", "deq_seq"}

\* The threads that hold slot i between their compare-and-swap and their release.
Owners(i) == {t \in Threads : th[t].pc \in OwnerPcs /\ th[t].slot = i}

\* C15: at most one thread at a time is between its successful compare-and-swap and
\* its release store of sequence on a slot, so no producer writes a slot a consumer
\* is copying and no two producers write one slot at the same time.
C15_ExclusiveSlot ==
  \A i \in 0..(mem.capacity - 1) : Cardinality(Owners(i)) <= 1

\* C16: in every state with no call in flight, the slot of every position p with
\* head <= p < tail has sequence p + 1, the slot of every position p with
\* tail <= p < head + capacity has sequence p, and so every slot i has a sequence
\* congruent to i or i + 1 modulo capacity.
C16_SequenceTags ==
  Quiescent =>
    /\ \A p \in mem.head..(mem.tail - 1) : SlotAt(mem, p).sequence = p + 1
    /\ \A p \in mem.tail..(mem.head + mem.capacity - 1) : SlotAt(mem, p).sequence = p
    /\ \A i \in 0..(mem.capacity - 1) :
         mem.buffer[i].sequence % mem.capacity \in
           {i % mem.capacity, (i + 1) % mem.capacity}

\* C17: an enqueue call that returns false found the ring full (tail - head =
\* capacity), examined the slot of the oldest item (the one at head) with important =
\* true, and left the region unchanged; an enqueue on a ring with tail - head <
\* capacity and no call in flight returns true.  Stated for calls that start with no
\* other call in flight and run alone.
C17_FalseOnlyWhenFull ==
  Quiescent =>
    \A v \in Values, imp \in BOOLEAN :
      LET e == EnqueueAlone(mem, EnqueueCall(v, imp), MaxAlone)
      IN  /\ Returned(e, "ret_false") =>
                /\ size_approx(mem) = mem.capacity
                /\ Last(e).l.slot = wrap(mem, mem.head)
                /\ mem.buffer[Last(e).l.slot].important
                /\ Last(e).m = mem
          /\ size_approx(mem) < mem.capacity => Returned(e, "ret_true")

\* Every value whose enqueue has returned true has been returned by a dequeue.
AllReturned == \A v \in 1..Len(enqLog) : enqLog[v].ret = "true" => v \in Dequeued

\* A dequeue call that runs alone from the current state.
DequeueNow == DequeueAlone(mem, DequeueCall, MaxAlone)

\* C18: a dequeue call that returns false had every value whose enqueue returned
\* true already returned by a dequeue, and leaves the region unchanged; with no call
\* in flight and tail > head, dequeue does not return false.  Stated for calls that
\* start with no other call in flight and run alone.
C18_FalseOnlyWhenEmpty ==
  Quiescent =>
    /\ Returned(DequeueNow, "ret_false") => (AllReturned /\ Last(DequeueNow).m = mem)
    /\ size_approx(mem) > 0 => ~Returned(DequeueNow, "ret_false")

\* The values initialization_flag may take next: it stays or moves one step forward.
FlagSuccessors(flag) == {flag} \cup (IF flag < 2 THEN {flag + 1} ELSE {})

\* Some create() call has returned true.
SomeCreated == \E t \in Threads : handle[t].created

\* The sequence tags of the slots.
Sequences(m) == [i \in DOMAIN m.buffer |-> m.buffer[i].sequence]

\* C19: initialization_flag only follows 0 -> 1 -> 2; once a create() call has
\* returned true the flag is 2 in every later state, and no later step of a create()
\* call changes head, tail or a slot's sequence.
C19_InitForward ==
  [][/\ mem'.initialization_flag \in FlagSuccessors(mem.initialization_flag)
     /\ SomeCreated =>
          /\ mem'.initialization_flag = 2
          /\ \A t \in Threads :
               (th[t].pc \in CreatePcs /\ th'[t] # th[t]) =>
                 /\ mem'.head = mem.head
                 /\ mem'.tail = mem.tail
                 /\ Sequences(mem') = Sequences(mem)
    ]_vars

(* ------------------- counters close to their wrap ---------------------- *)

\* The last position below p that maps to slot i of a ring of cap slots.
LastPosition(cap, p, i) ==
  CHOOSE q \in (p - cap)..(p - 1) : q % cap = i

\* The region after p enqueue/dequeue round trips on a ring of cap slots (p >= cap):
\* head = tail = p, and every slot carries the sequence its last dequeue stored.
RegionAfter(cap, p) ==
  [initialization_flag |-> 2, head |-> p, tail |-> p, capacity |-> cap,
   buffer |-> [i \in 0..(cap - 1) |->
                 [Buffer_Slot EXCEPT !.sequence = Add(LastPosition(cap, p, i), cap)]]]

\* The capacities of these rings: powers of two and one that is not.
WrapCaps == 1..(MaxCap + 1)

\* An empty queue whose counters are WrapBack positions away from wrapping.
WrapInit ==
  /\ \E cap \in WrapCaps : mem = RegionAfter(cap, SizeMod - WrapBack)
  /\ th = [t \in Threads |-> IdleThread]
  /\ ops = 0
  /\ enqLog = << >>
  /\ deqLog = << >>
  /\ tookFull = FALSE
  /\ handle = [t \in Threads |-> BoundHandle(mem.capacity)]
  /\ readyCap = mem.capacity

\* A thread calls enqueue() while nothing is in flight and the ring is not full.
WrapEnqueue(t) ==
  /\ Quiescent
  /\ size_approx(mem) < mem.capacity
  /\ CallEnqueueUpTo(t, MaxWrapOps)

\* A thread calls dequeue() while nothing is in flight.
WrapDequeue(t) == Quiescent /\ CallDequeueUpTo(t, MaxWrapOps)

WrapNext ==
  \E t \in Threads :
    \/ WrapEnqueue(t)
    \/ WrapDequeue(t)
    \/ EnqueueRun(t)
    \/ DequeueRun(t)
    \/ CasSpurious(t)

SpecWrap == WrapInit /\ [][WrapNext]_vars

\* Positions p and p + 1 map to adjacent slot indices.
Adjacent(m, p) == wrap(m, Add(p, 1)) = (wrap(m, p) + 1) % m.capacity

\* The signed difference sequence - position at tail and at head says what the queue
\* holds: writable at tail, and readable at head exactly when the queue is not empty.
SignMeaning(m) ==
  /\ EnqueueBranch(SlotAt(m, m.tail).sequence, m.tail) = "enq_cas"
  /\ DequeueBranch(SlotAt(m, m.head).sequence, m.head) =
       (IF is_empty(m) THEN "ret_false" ELSE "deq_cas")

\* The dequeues so far returned the values 1, 2, ... with the flags they were
\* enqueued with, and every enqueue that returned has returned true.
FifoSoFar ==
  /\ \A k \in 1..Len(deqLog) :
       /\ deqLog[k].value = k
       /\ k <= Len(enqLog)
       /\ deqLog[k].important = enqLog[k].important
  /\ \A v \in 1..Len(enqLog) : enqLog[v].ret # "false"

\* C20: through the wrap of the head and tail counters and for every capacity, with
\* enqueues and dequeues that never meet a full ring: positions p and p + 1 map to
\* adjacent slots, the signed difference sequence - position keeps its meaning, and
\* every value is returned once, in FIFO order.
C20_WrapSafe ==
  /\ Adjacent(mem, mem.tail) /\ Adjacent(mem, mem.head)
  /\ FifoSoFar
  /\ Quiescent =>
       /\ size_approx(mem) < mem.capacity => SignMeaning(mem)
       /\ size_approx(mem) > 0 =>
            /\ Returned(DequeueNow, "ret_true")
            /\ Last(DequeueNow).l.value = Len(deqLog) + 1

====
